---- MODULE Spec2Model ----
(***************************************************************************)
(* Model of src/pdf_generator.py: generate_schedule_pdf and the PDF        *)
(* subclass (header / footer hooks).                                       *)
(*                                                                         *)
(* Python strings are sequences of Unicode code points, compared the way   *)
(* Python compares str values (lexicographically, by code point).          *)
(* Python dicts are functions whose domain is the set of keys present;     *)
(* dict.get(k, default) is Get.  Python lists are sequences.               *)
(*                                                                         *)
(* The base class FPDF is not part of the repository.  What the model      *)
(* needs of it is kept as two facts of the environment, fixed when the     *)
(* run starts: whether add_page() invokes the header hook (it passes no    *)
(* arguments: the call at line 69 gives it none to pass), and whether the  *)
(* font file 'Vazirmatn-Regular.ttf' can be loaded.                        *)
(***************************************************************************)
EXTENDS Integers, Sequences, FiniteSets, TLC

VARIABLES
    user_data,              \* the argument of generate_schedule_pdf
    add_page_calls_header,  \* environment: FPDF.add_page invokes self.header()
    font_file_ok,           \* environment: add_font('Vazir', ...) succeeds
    pc,                     \* position in generate_schedule_pdf
    error,                  \* the exception that left generate_schedule_pdf
    w,                      \* index into week_types of the for loop at line 68
    d,                      \* index into ENGLISH_WEEKDAYS of the loop at line 76
    lessons,                \* lessons of the current weekday (line 77)
    li,                     \* index of the next lesson of the loop at line 81
    row,                    \* row buffer of the current weekday (line 78)
    table_data,             \* rows of the current week (line 74)
    pages,                  \* tables rendered so far, one per page
    page,                   \* FPDF page counter
    fonts,                  \* families registered by add_font
    font_family,            \* the selected family (self.font_family)
    header_calls,           \* every invocation of PDF.header, with its arguments
    stderr                  \* number of "Error loading font" lines printed

vars == <<user_data, add_page_calls_header, font_file_ok, pc, error, w, d,
          lessons, li, row, table_data, pages, page, fonts, font_family,
          header_calls, stderr>>

-----------------------------------------------------------------------------
(* Bounds of the model *)

\* most lesson entries in one user record
MaxLessons == 2

-----------------------------------------------------------------------------
(* Python values *)

\* None, which is no string: the code point -1 belongs to no str
None == <<-1>>

\* {} and [] : the dict without keys, the list without items
EmptyDict == <<>>
EmptyList == <<>>

\* d.get(k, default)
Get(dict, k, default) == IF k \in DOMAIN dict THEN dict[k] ELSE default

\* d[k] = v on a copy of d
Put(dict, k, v) == (k :> v) @@ dict

\* bool(x) of a str or None: None and '' are falsy
Truthy(x) == x # None /\ x # <<>>

\* a < b on str: the first differing code point decides, a proper prefix is smaller
RECURSIVE StrLess(_, _)
StrLess(a, b) ==
    IF b = <<>> THEN FALSE
    ELSE IF a = <<>> THEN TRUE
    ELSE IF Head(a) # Head(b) THEN Head(a) < Head(b)
    ELSE StrLess(Tail(a), Tail(b))

\* a <= b on str
StrLeq(a, b) == a = b \/ StrLess(a, b)

-----------------------------------------------------------------------------
(* String literals of the source, as code points *)

Dash == <<45>>                       \* '-'
Newline == <<10>>                    \* '\n'
Separator == <<10, 45, 45, 45, 10>>  \* '\n---\n'
UnknownLesson == <<1583, 1585, 1587, 32, 1606, 1575, 1605, 1588, 1582, 1589>>
DefaultName == <<1705, 1575, 1585, 1576, 1585>>
DayHeading == <<1585, 1608, 1586>>
Hyphenated == <<32, 45, 32>>         \* ' - '

PERSIAN_WEEKDAYS == <<
    <<1588, 1606, 1576, 1607>>,
    <<1740, 1705, 1588, 1606, 1576, 1607>>,
    <<1583, 1608, 1588, 1606, 1576, 1607>>,
    <<1587, 1607, 8204, 1588, 1606, 1576, 1607>>,
    <<1670, 1607, 1575, 1585, 1588, 1606, 1576, 1607>> >>

ENGLISH_WEEKDAYS == <<"saturday", "sunday", "monday", "tuesday", "wednesday">>

\* the dict keeps insertion order: items() yields the slots in this order
TIME_SLOTS == <<
    [name |-> <<1705, 1604, 1575, 1587, 32, 1575, 1608, 1604>>,
     start |-> <<48, 56, 58, 48, 48>>, end |-> <<49, 48, 58, 48, 48>>],
    [name |-> <<1705, 1604, 1575, 1587, 32, 1583, 1608, 1605>>,
     start |-> <<49, 48, 58, 48, 48>>, end |-> <<49, 50, 58, 48, 48>>],
    [name |-> <<1705, 1604, 1575, 1587, 32, 1587, 1608, 1605>>,
     start |-> <<49, 51, 58, 48, 48>>, end |-> <<49, 53, 58, 48, 48>>],
    [name |-> <<1705, 1604, 1575, 1587, 32, 1670, 1607, 1575, 1585, 1605>>,
     start |-> <<49, 53, 58, 48, 48>>, end |-> <<49, 55, 58, 48, 48>>],
    [name |-> <<1705, 1604, 1575, 1587, 32, 1662, 1606, 1580, 1605>>,
     start |-> <<49, 55, 58, 48, 48>>, end |-> <<49, 57, 58, 48, 48>>] >>

NumSlots == Len(TIME_SLOTS)
NumDays == Len(ENGLISH_WEEKDAYS)

-----------------------------------------------------------------------------
(* generate_schedule_pdf: the values computed from user_data *)

full_name == Get(user_data, "fullName", DefaultName)

schedule == Get(user_data, "schedule", EmptyDict)

week_types == <<
    [type |-> "odd", label |-> <<1601, 1585, 1583>>, emoji |-> <<128995>>,
     data |-> Get(schedule, "odd_week_schedule", EmptyDict)],
    [type |-> "even", label |-> <<1586, 1608, 1580>>, emoji |-> <<128994>>,
     data |-> Get(schedule, "even_week_schedule", EmptyDict)] >>

NumWeeks == Len(week_types)

\* the slot test with the end bound included
SlotMatchesEndInclusive(start_time, slot_info) ==
    /\ Truthy(start_time)
    /\ StrLeq(slot_info.start, start_time)
    /\ StrLeq(start_time, slot_info.end)

\* the slot test without the end bound
SlotMatchesNoEnd(start_time, slot_info) ==
    /\ Truthy(start_time)
    /\ StrLeq(slot_info.start, start_time)

\* slot_info['start'] <= start_time < slot_info['end'], guarded by start_time
SlotMatches(start_time, slot_info) ==
    /\ Truthy(start_time)
    /\ StrLeq(slot_info.start, start_time)
    /\ StrLess(start_time, slot_info.end)

\* the scan of lines 85-90 from slot i on: the column of the first slot that
\* matches (i + 1: the first column is the day), -1 when none does
RECURSIVE ScanSlots(_, _)
ScanSlots(start_time, i) ==
    IF i > NumSlots THEN -1
    ELSE IF SlotMatches(start_time, TIME_SLOTS[i]) THEN i + 1
    ELSE ScanSlots(start_time, i + 1)

FindSlotIndex(start_time) == ScanSlots(start_time, 1)

\* the lesson text with '' for an absent subject
LessonTextNoPlaceholder(lesson) ==
    Get(lesson, "lesson", <<>>) \o Newline \o Get(lesson, "location", Dash)

\* the lesson text without the newline and the location
LessonTextSubjectOnly(lesson) == Get(lesson, "lesson", UnknownLesson)

\* f"{lesson.get('lesson', ...)}\n{lesson.get('location', '-')}"
LessonText(lesson) ==
    Get(lesson, "lesson", UnknownLesson) \o Newline \o Get(lesson, "location", Dash)

\* the row with '' for its empty cells
InitRowEmpty(day_fa) == <<day_fa>> \o [i \in 1..NumSlots |-> <<>>]

\* the row buffer made once and reused: only the day name is set again
InitRowReused(day_fa) ==
    IF row = <<>> THEN <<day_fa>> \o [i \in 1..NumSlots |-> Dash]
    ELSE [row EXCEPT ![1] = day_fa]

\* [day_fa] + ['-'] * len(TIME_SLOTS)
InitRow(day_fa) == <<day_fa>> \o [i \in 1..NumSlots |-> Dash]

\* the cell without the else branch: a later lesson replaces the earlier one
FillCellOverwrite(cell, lesson_text) == lesson_text

\* lines 94-97: the cell after one more lesson text goes into it
FillCell(cell, lesson_text) ==
    IF cell = Dash THEN lesson_text ELSE cell \o Separator \o lesson_text

\* lines 82-97: the row after one lesson of the loop
PlaceInRow(r, lesson) ==
    LET start_time == Get(lesson, "start_time", None)
        lesson_text == LessonText(lesson)
        slot_index == FindSlotIndex(start_time)
    IN  IF slot_index # -1
        THEN [r EXCEPT ![slot_index] = FillCell(@, lesson_text)]
        ELSE r

\* line 73
table_headers ==
    <<DayHeading>> \o
    [i \in 1..NumSlots |->
        TIME_SLOTS[i].name \o Newline \o TIME_SLOTS[i].start \o Hyphenated
            \o TIME_SLOTS[i].end]

-----------------------------------------------------------------------------
(* The inputs *)

\* lesson entries for every case of start_time: inside a slot (at its start, at
\* its last minute), before the first slot, in the midday gap, after the last
\* slot, not zero-padded, empty, None, absent; with and without subject and
\* location, and with '-' and '' for both
LessonPool == {
    [lesson |-> <<77>>, location |-> <<82>>, start_time |-> <<48, 56, 58, 48, 48>>],   \* 08:00
    [lesson |-> Dash, location |-> Dash, start_time |-> <<49, 48, 58, 48, 48>>],       \* 10:00
    [lesson |-> <<>>, location |-> <<>>, start_time |-> <<48, 57, 58, 53, 57>>],       \* 09:59
    [start_time |-> <<49, 49, 58, 53, 57>>],                                           \* 11:59
    [lesson |-> <<78>>, start_time |-> <<49, 56, 58, 53, 57>>],                        \* 18:59
    [location |-> <<82>>, start_time |-> <<49, 51, 58, 48, 48>>],                      \* 13:00
    [lesson |-> <<77>>, location |-> <<82>>],                                          \* absent
    [lesson |-> <<78>>, location |-> <<82>>, start_time |-> None],                     \* None
    [lesson |-> <<78>>, location |-> <<82>>, start_time |-> <<>>],                     \* ''
    [lesson |-> <<78>>, location |-> <<82>>, start_time |-> <<48, 55, 58, 53, 57>>],   \* 07:59
    [lesson |-> <<78>>, location |-> <<82>>, start_time |-> <<49, 50, 58, 48, 48>>],   \* 12:00
    [lesson |-> <<78>>, location |-> <<82>>, start_time |-> <<49, 50, 58, 53, 57>>],   \* 12:59
    [lesson |-> <<78>>, location |-> <<82>>, start_time |-> <<49, 57, 58, 48, 48>>],   \* 19:00
    [lesson |-> <<78>>, location |-> <<82>>, start_time |-> <<56, 58, 51, 48>>] }      \* 8:30

\* the entries the other days draw from
SmallPool == {
    [lesson |-> <<77>>, location |-> <<82>>, start_time |-> <<48, 56, 58, 48, 48>>],   \* 08:00
    [lesson |-> Dash, location |-> Dash, start_time |-> <<49, 48, 58, 48, 48>>],       \* 10:00
    [lesson |-> <<77>>, location |-> <<82>>] }                                         \* absent

\* the day keys an input may hold: two weekdays and a day that is none
DayKeys == {"sunday", "wednesday", "thursday"}

\* the entries a day's list may hold
PoolOf(day) == IF day = "sunday" THEN LessonPool ELSE SmallPool

WeekKeys == {"odd_week_schedule", "even_week_schedule"}

\* record u with one more lesson at the end of week wk's list for day
AddLesson(u, wk, day, lesson) ==
    LET sch == u["schedule"]
        days == sch[wk]
    IN  Put(u, "schedule",
            Put(sch, wk, Put(days, day, Append(Get(days, day, EmptyList), lesson))))

\* where a lesson entry may go: a week, a day key and an entry of that day's pool
Placements == UNION {WeekKeys \X {day} \X PoolOf(day) : day \in DayKeys}

\* the record with both week schedules and the lessons of ps, added in order
RECURSIVE FullRecord(_)
FullRecord(ps) ==
    IF ps = <<>>
    THEN [fullName |-> <<65, 108, 105>>,
          schedule |-> [odd_week_schedule |-> EmptyDict,
                        even_week_schedule |-> EmptyDict]]
    ELSE LET p == ps[Len(ps)]
         IN  AddLesson(FullRecord(SubSeq(ps, 1, Len(ps) - 1)), p[1], p[2], p[3])

\* records that lack a key generate_schedule_pdf reads with a default
PartialRecords == {
    EmptyDict,
    [fullName |-> <<65, 108, 105>>],
    [schedule |-> EmptyDict],
    [schedule |-> [odd_week_schedule |->
        [sunday |-> <<[lesson |-> <<77>>, location |-> <<82>>,
                       start_time |-> <<48, 56, 58, 48, 48>>]>>]]],
    [fullName |-> <<65, 108, 105>>,
     schedule |-> [even_week_schedule |-> [wednesday |-> EmptyList]]] }


-----------------------------------------------------------------------------
(* PDF.header, PDF.footer and the state machine of generate_schedule_pdf *)

\* the families usable without add_font
CoreFonts == {"Arial"}

\* set_font(family) succeeds for a core family or a registered one
FontKnown(family) == family \in CoreFonts \cup fonts

\* PDF.footer, lines 41-44: the family it selects
FooterFont == IF FontKnown("Vazir") THEN "Vazir" ELSE "Arial"

Init ==
    /\ \/ user_data \in PartialRecords
       \/ \E n \in 0..MaxLessons :
             \E ps \in [1..n -> Placements] : user_data = FullRecord(ps)
    /\ add_page_calls_header \in BOOLEAN
    /\ font_file_ok \in BOOLEAN
    /\ pc = "add_page"
    /\ error = "none"
    /\ w = 1
    /\ d = 1
    /\ lessons = EmptyList
    /\ li = 1
    /\ row = <<>>
    /\ table_data = <<>>
    /\ pages = <<>>
    /\ page = 0
    /\ fonts = {}
    /\ font_family = ""
    /\ header_calls = <<>>
    /\ stderr = 0

\* line 69: pdf.add_page(). The page before gets its footer; the header hook,
\* when FPDF invokes it, is called as self.header(): the three required
\* parameters of PDF.header are missing and Python raises TypeError.
AddPage ==
    /\ pc = "add_page"
    /\ page' = page + 1
    /\ IF add_page_calls_header
       THEN /\ header_calls' = Append(header_calls, [page |-> page + 1, args |-> <<>>])
            /\ pc' = "error"
            /\ error' = "TypeError"
       ELSE /\ pc' = "header"
            /\ UNCHANGED <<header_calls, error>>
    /\ font_family' = IF page > 0 THEN FooterFont ELSE font_family
    /\ UNCHANGED <<user_data, add_page_calls_header, font_file_ok, w, d, lessons,
                   li, row, table_data, pages, fonts, stderr>>

\* line 70 with lines 20-36, then lines 73-74
Header ==
    /\ pc = "header"
    /\ header_calls' = Append(header_calls,
            [page |-> page,
             args |-> <<full_name, week_types[w].label, week_types[w].emoji>>])
    /\ IF font_file_ok
       THEN /\ fonts' = fonts \cup {"Vazir"}
            /\ font_family' = "Vazir"
            /\ UNCHANGED stderr
       ELSE /\ stderr' = stderr + 1
            /\ font_family' = "Arial"
            /\ UNCHANGED fonts
    /\ table_data' = <<>>
    /\ d' = 1
    /\ pc' = "day"
    /\ UNCHANGED <<user_data, add_page_calls_header, font_file_ok, error, w,
                   lessons, li, row, pages, page>>

\* lines 76-78: the next weekday's lessons and a fresh row
StartDay ==
    /\ pc = "day"
    /\ lessons' = Get(week_types[w].data, ENGLISH_WEEKDAYS[d], EmptyList)
    /\ row' = InitRow(PERSIAN_WEEKDAYS[d])
    /\ li' = 1
    /\ pc' = "lesson"
    /\ UNCHANGED <<user_data, add_page_calls_header, font_file_ok, error, w, d,
                   table_data, pages, page, fonts, font_family, header_calls, stderr>>

\* lines 81-97: one iteration of the lesson loop
PlaceLesson ==
    /\ pc = "lesson"
    /\ li <= Len(lessons)
    /\ row' = PlaceInRow(row, lessons[li])
    /\ li' = li + 1
    /\ UNCHANGED <<user_data, add_page_calls_header, font_file_ok, pc, error, w, d,
                   lessons, table_data, pages, page, fonts, font_family,
                   header_calls, stderr>>

\* line 99, and the step of the weekday loop
AppendRow ==
    /\ pc = "lesson"
    /\ li > Len(lessons)
    /\ table_data' = Append(table_data, row)
    /\ IF d < NumDays
       THEN d' = d + 1 /\ pc' = "day"
       ELSE d' = d /\ pc' = "table"
    /\ UNCHANGED <<user_data, add_page_calls_header, font_file_ok, error, w,
                   lessons, li, row, pages, page, fonts, font_family, header_calls,
                   stderr>>

\* the family the table's styles name, lines 120 and 127
TableStyleFont == "Vazir"

\* lines 104-138: set_font with the current family, then the table with its
\* styles; then the step of the week loop
AutoTable ==
    /\ pc = "table"
    /\ IF FontKnown(TableStyleFont)
       THEN /\ pages' = Append(pages, [type |-> week_types[w].type,
                                       headings |-> table_headers,
                                       table |-> table_data,
                                       font |-> TableStyleFont])
            /\ font_family' = TableStyleFont
            /\ IF w < NumWeeks
               THEN w' = w + 1 /\ pc' = "add_page"
               ELSE w' = w /\ pc' = "output"
            /\ UNCHANGED error
       ELSE /\ pc' = "error"
            /\ error' = "UndefinedFont"
            /\ UNCHANGED <<pages, font_family, w>>
    /\ UNCHANGED <<user_data, add_page_calls_header, font_file_ok, d, lessons, li,
                   row, table_data, page, fonts, header_calls, stderr>>

\* lines 142-147: the document is closed (the last page gets its footer) and
\* its bytes are returned
Output ==
    /\ pc = "output"
    /\ font_family' = FooterFont
    /\ pc' = "done"
    /\ UNCHANGED <<user_data, add_page_calls_header, font_file_ok, error, w, d,
                   lessons, li, row, table_data, pages, page, fonts, header_calls,
                   stderr>>

Next ==
    \/ AddPage
    \/ Header
    \/ StartDay
    \/ PlaceLesson
    \/ AppendRow
    \/ AutoTable
    \/ Output

Spec == Init /\ [][Next]_vars

-----------------------------------------------------------------------------
(* What the properties are stated with.  Nothing below is used by the      *)
(* actions: the slot ranges, the texts and the joins are written out here   *)
(* on their own, apart from the operators that model the code.              *)

\* the lessons generate_schedule_pdf is given for weekday i of week wk
DayLessons(wk, i) ==
    LET key == IF wk = 1 THEN "odd_week_schedule" ELSE "even_week_schedule"
        sch == IF "schedule" \in DOMAIN user_data THEN user_data["schedule"] ELSE <<>>
        days == IF key \in DOMAIN sch THEN sch[key] ELSE <<>>
    IN  IF ENGLISH_WEEKDAYS[i] \in DOMAIN days THEN days[ENGLISH_WEEKDAYS[i]] ELSE <<>>

\* the start_time of an entry, None when it has none
StartOf(l) == IF "start_time" \in DOMAIN l THEN l["start_time"] ELSE None

\* 08:00-10:00, 10:00-12:00, 13:00-15:00, 15:00-17:00, 17:00-19:00
SlotStart == << <<48, 56, 58, 48, 48>>, <<49, 48, 58, 48, 48>>, <<49, 51, 58, 48, 48>>,
                <<49, 53, 58, 48, 48>>, <<49, 55, 58, 48, 48>> >>
SlotEnd == << <<49, 48, 58, 48, 48>>, <<49, 50, 58, 48, 48>>, <<49, 53, 58, 48, 48>>,
              <<49, 55, 58, 48, 48>>, <<49, 57, 58, 48, 48>> >>
Slots == 1..5

\* start <= s < end of slot k, as strings; None and '' are in no slot
InRange(s, k) ==
    /\ s # None
    /\ StrLeq(SlotStart[k], s)
    /\ StrLess(s, SlotEnd[k])

InSomeSlot(s) == \E k \in Slots : InRange(s, k)

\* subject, newline, location, with the placeholders for an absent field
ExpectedText(l) ==
    (IF "lesson" \in DOMAIN l THEN l["lesson"]
     ELSE <<1583, 1585, 1587, 32, 1606, 1575, 1605, 1588, 1582, 1589>>)
    \o <<10>> \o
    (IF "location" \in DOMAIN l THEN l["location"] ELSE <<45>>)

\* text occurs in cell
Contains(cell, text) ==
    \E i \in 0..(Len(cell) - Len(text)) : SubSeq(cell, i + 1, i + Len(text)) = text

\* the texts of the entries of ls whose start_time is in slot k, in input order
RECURSIVE TextsInSlot(_, _)
TextsInSlot(ls, k) ==
    IF ls = <<>> THEN <<>>
    ELSE (IF InRange(StartOf(Head(ls)), k) THEN <<ExpectedText(Head(ls))>> ELSE <<>>)
         \o TextsInSlot(Tail(ls), k)

\* texts joined with '\n---\n'
RECURSIVE JoinTexts(_)
JoinTexts(texts) ==
    IF Len(texts) = 1 THEN texts[1]
    ELSE texts[1] \o <<10, 45, 45, 45, 10>> \o JoinTexts(Tail(texts))

\* the entries of ls that have a start_time other than None
RECURSIVE WithStartTime(_)
WithStartTime(ls) ==
    IF ls = <<>> THEN <<>>
    ELSE (IF StartOf(Head(ls)) # None THEN <<Head(ls)>> ELSE <<>>)
         \o WithStartTime(Tail(ls))

\* number of lesson texts a cell holds: none in '-', else one more than the
\* separators in it
CountTexts(cell) ==
    IF cell = <<45>> THEN 0
    ELSE 1 + Cardinality({i \in 1..Len(cell) :
                 i + 4 <= Len(cell) /\ SubSeq(cell, i, i + 4) = <<10, 45, 45, 45, 10>>})

RECURSIVE SumSeq(_)
SumSeq(q) == IF q = <<>> THEN 0 ELSE Head(q) + SumSeq(Tail(q))

\* the rows built so far: those of the finished pages and those of the week
\* in progress, each with its week and weekday
BuiltRows ==
    {[wk |-> p, day |-> i, cells |-> pages[p].table[i]] :
        p \in 1..Len(pages), i \in 1..NumDays}
    \cup (IF pc \in {"day", "lesson", "table"}
          THEN {[wk |-> w, day |-> i, cells |-> table_data[i]] : i \in 1..Len(table_data)}
          ELSE {})

\* generate_schedule_pdf has ended, by return or by an exception
Ended == pc \in {"done", "error"}

-----------------------------------------------------------------------------
(* The claims *)

\* C1: every lesson listed under a weekday of a week whose start_time s has
\* slot.start <= s < slot.end (as strings) for one of the five slots is in the
\* cell at that weekday's row and that slot's column of that week's table: the
\* cell contains subject, newline, location.  A lesson starting at exactly a
\* slot's start ('10:00') is in that slot, not in the one that ends there.
C1_LessonInItsSlot ==
    \A r \in BuiltRows :
        \A n \in 1..Len(DayLessons(r.wk, r.day)) :
            LET l == DayLessons(r.wk, r.day)[n] IN
            \A k \in Slots :
                InRange(StartOf(l), k) =>
                    /\ Contains(r.cells[k + 1], ExpectedText(l))
                    /\ \A j \in Slots \ {k} :
                           TextsInSlot(DayLessons(r.wk, r.day), j) = <<>>
                               => ~Contains(r.cells[j + 1], ExpectedText(l))

\* a finished page whose Sunday holds only a lesson at '10:00': it is in the
\* second slot's cell and the first slot's cell is the dash
C1_Witness ==
    /\ pc = "done"
    /\ \E p \in 1..Len(pages) :
          /\ Len(DayLessons(p, 2)) = 1
          /\ StartOf(DayLessons(p, 2)[1]) = <<49, 48, 58, 48, 48>>
          /\ pages[p].table[2][3] = ExpectedText(DayLessons(p, 2)[1])
          /\ pages[p].table[2][2] = <<45>>

\* C2: every (weekday, slot) cell for which no lesson of that weekday and week
\* has a start_time in the slot's range holds '-', also when the weekday is
\* absent from the week schedule or its list is empty.
C2_EmptyCellIsDash ==
    \A r \in BuiltRows :
        \A k \in Slots :
            TextsInSlot(DayLessons(r.wk, r.day), k) = <<>> => r.cells[k + 1] = <<45>>

\* the tables of a record without 'schedule' are built: all fifty cells are '-'
C2_Witness ==
    /\ pc = "done"
    /\ "schedule" \notin DOMAIN user_data
    /\ \A p \in 1..2 : \A i \in 1..5 : \A k \in Slots : pages[p].table[i][k + 1] = <<45>>

\* C3: when two or more lessons of a weekday and week have start times in the
\* same slot, the cell is exactly their texts joined with '\n---\n', in input
\* order: nothing lost, duplicated or reordered, no leading or trailing
\* separator.
C3_JoinedInOrder ==
    \A r \in BuiltRows :
        \A k \in Slots :
            LET texts == TextsInSlot(DayLessons(r.wk, r.day), k) IN
            Len(texts) >= 2 => r.cells[k + 1] = JoinTexts(texts)

\* a built row with two different lessons in one slot, joined in input order
C3_Witness ==
    \E r \in BuiltRows :
        \E k \in Slots :
            LET texts == TextsInSlot(DayLessons(r.wk, r.day), k) IN
            /\ Len(texts) >= 2
            /\ texts[1] # texts[2]
            /\ r.cells[k + 1] = JoinTexts(texts)

\* C4: for every input record generate_schedule_pdf produces exactly two week
\* pages, odd first and even second, each table with five rows in the order
\* Saturday .. Wednesday, each row with six columns: the day name and the five
\* slots in the order 08:00, 10:00, 13:00, 15:00, 17:00.
C4_TwoPagesOfFiveBySix ==
    Ended =>
        /\ Len(pages) = 2
        /\ pages[1].type = "odd"
        /\ pages[2].type = "even"
        /\ \A p \in 1..2 :
              /\ Len(pages[p].table) = 5
              /\ Len(pages[p].headings) = 6
              /\ \A k \in Slots :
                    Contains(pages[p].headings[k + 1], SlotStart[k] \o <<32, 45, 32>> \o SlotEnd[k])
              /\ \A i \in 1..5 :
                    /\ Len(pages[p].table[i]) = 6
                    /\ pages[p].table[i][1] = PERSIAN_WEEKDAYS[i]

\* C5 as stated: every lesson entry with a field missing (subject, location or
\* start time) is still rendered, with placeholder text for what is missing.
\* (Entries whose start_time is present but in no slot are left aside: they
\* are omitted for their start time, not for a missing field.)
C5_MissingFieldStillRendered ==
    \A r \in BuiltRows :
        \A n \in 1..Len(DayLessons(r.wk, r.day)) :
            LET l == DayLessons(r.wk, r.day)[n] IN
            (DOMAIN l # {"lesson", "location", "start_time"}
                /\ ("start_time" \in DOMAIN l => InSomeSlot(l["start_time"])))
            => \E k \in Slots : Contains(r.cells[k + 1], ExpectedText(l))

\* C5, amended: a missing subject is replaced by the unknown-lesson text and a
\* missing location by '-' in the lesson's text, which is in the cell of the
\* slot that holds its start_time; a lesson whose start_time is missing (or
\* None) gets no placeholder and is in no cell: every cell is what the entries
\* that have a start_time alone give.  Placing a lesson raises no error.
C5_PlaceholdersForSubjectAndLocation ==
    /\ pc = "lesson" => error = "none"
    /\ \A r \in BuiltRows :
          LET given == DayLessons(r.wk, r.day)
              kept == WithStartTime(given)
          IN  \A k \in Slots :
                /\ \A n \in 1..Len(given) :
                      LET l == given[n]
                          subject == IF "lesson" \in DOMAIN l THEN l["lesson"]
                                     ELSE <<1583, 1585, 1587, 32, 1606, 1575, 1605, 1588, 1582, 1589>>
                          location == IF "location" \in DOMAIN l THEN l["location"] ELSE <<45>>
                      IN  InRange(StartOf(l), k)
                              => Contains(r.cells[k + 1], subject \o <<10>> \o location)
                /\ r.cells[k + 1] =
                       IF TextsInSlot(kept, k) = <<>> THEN <<45>>
                       ELSE JoinTexts(TextsInSlot(kept, k))

\* a built row of a day with an entry without subject and location, whose cell
\* shows both placeholders, and an entry without start_time, which no cell shows
C5_Witness ==
    \E r \in BuiltRows :
        LET given == DayLessons(r.wk, r.day) IN
        /\ \E n \in 1..Len(given) : "start_time" \notin DOMAIN given[n]
        /\ \E n \in 1..Len(given) : DOMAIN given[n] = {"start_time"}
        /\ r.cells[3] = <<1583, 1585, 1587, 32, 1606, 1575, 1605, 1588, 1582, 1589, 10, 45>>
        /\ \A k \in Slots \ {2} : r.cells[k + 1] = <<45>>

\* C6: if loading the custom font fails in PDF.header, the failure is only
\* logged, the default typeface is selected and generation runs to completion
\* on it: every later step that selects a font selects a loaded one, and no
\* error caused by the missing font reaches the caller.
C6_FontFallbackCompletes ==
    stderr > 0 =>
        /\ error # "UndefinedFont"
        /\ FontKnown(font_family)
        /\ \A p \in 1..Len(pages) : FontKnown(pages[p].font)

\* C7: each lesson entry influences at most one cell of the document: the cell
\* in the row of its weekday, on the page of its week, in the only slot whose
\* range holds its start time.  A row depends on nothing but the lessons of its
\* own weekday and week: rows of days with the same lessons are the same,
\* whatever the other days and the other week hold; placing a lesson changes
\* no cell but that one, and finished rows and pages are never touched again.
C7_RowsOfOwnLessonsOnly ==
    /\ \A r \in BuiltRows :
          \A n \in 1..Len(DayLessons(r.wk, r.day)) :
              Cardinality({k \in Slots :
                  InRange(StartOf(DayLessons(r.wk, r.day)[n]), k)}) <= 1
    /\ \A r1, r2 \in BuiltRows :
          DayLessons(r1.wk, r1.day) = DayLessons(r2.wk, r2.day)
              => \A k \in Slots : r1.cells[k + 1] = r2.cells[k + 1]

C7_StepTouchesOneCell ==
    /\ Len(pages') >= Len(pages)
    /\ SubSeq(pages', 1, Len(pages)) = pages
    /\ (pc = "lesson" /\ pc' = "lesson") =>
          /\ table_data' = table_data
          /\ row'[1] = row[1]
          /\ \A k \in Slots :
                row'[k + 1] # row[k + 1] => InRange(StartOf(lessons[li]), k)
    /\ (pc = "lesson" /\ pc' # "lesson") =>
          /\ Len(table_data') = Len(table_data) + 1
          /\ SubSeq(table_data', 1, Len(table_data)) = table_data

\* C7, whole: the state part in every state and the step part on every step
C7_FrameOfLesson == []C7_RowsOfOwnLessonsOnly /\ [][C7_StepTouchesOneCell]_vars

\* both pages are finished; the odd week has a lesson on Sunday and the even
\* week one on Wednesday: each shows in its own row of its own page alone
C7_Witness ==
    /\ pc = "done"
    /\ DayLessons(1, 2) # <<>> /\ DayLessons(2, 5) # <<>>
    /\ \E k \in Slots : pages[1].table[2][k + 1] # <<45>>
    /\ \E k \in Slots : pages[2].table[5][k + 1] # <<45>>
    /\ \A k \in Slots : pages[2].table[2][k + 1] = <<45>>
    /\ \A k \in Slots : pages[1].table[5][k + 1] = <<45>>

\* number of lesson texts in the cells of a table
PageTextCount(table) ==
    SumSeq([i \in 1..5 |-> SumSeq([k \in 1..5 |-> CountTexts(table[i][k + 1])])])

\* number of lessons of week wk listed under the five weekdays whose
\* start_time is in some slot
LessonsInSlots(wk) ==
    SumSeq([i \in 1..5 |->
        Cardinality({n \in 1..Len(DayLessons(wk, i)) :
            InSomeSlot(StartOf(DayLessons(wk, i)[n]))})])

\* C8: a lesson whose start_time is in no slot's range as strings (before
\* '08:00', from '12:00' up to '13:00', at or after '19:00', '8:30', '', None
\* or missing) and a lesson listed under a day that is none of the five
\* weekdays is omitted silently: it changes no cell and raises no error, and
\* the number of lesson texts in the cells of a page is the number of that
\* week's lessons on the five weekdays whose start time is in some slot.
C8_CountOfTexts ==
    \A p \in 1..Len(pages) : PageTextCount(pages[p].table) = LessonsInSlots(p)

C8_OutOfSlotChangesNothing ==
    (pc = "lesson" /\ li <= Len(lessons) /\ ~InSomeSlot(StartOf(lessons[li]))) =>
        /\ row' = row
        /\ table_data' = table_data
        /\ pc' = "lesson"
        /\ error' = "none"

\* C8, whole: the count on every finished page and the step part on every step
C8_OutOfSlotOmitted == []C8_CountOfTexts /\ [][C8_OutOfSlotChangesNothing]_vars

\* a finished odd page without any lesson text, of a record whose odd week
\* lists a lesson at '8:30' on Sunday and one at '08:00' on Thursday
C8_Witness ==
    /\ pc = "done"
    /\ PageTextCount(pages[1].table) = 0
    /\ DayLessons(1, 2) # <<>>
    /\ StartOf(DayLessons(1, 2)[1]) = <<56, 58, 51, 48>>
    /\ "thursday" \in DOMAIN user_data["schedule"]["odd_week_schedule"]
    /\ StartOf(user_data["schedule"]["odd_week_schedule"]["thursday"][1])
           = <<48, 56, 58, 48, 48>>

\* C9: '-' marks the empty cell without ambiguity: after any prefix of a
\* weekday's lessons a cell is '-' if and only if no lesson has gone into it,
\* also for lessons whose subject and location are both '-' or both empty; the
\* first lesson in a slot is never overwritten.
C9_DashIffNothingPlaced ==
    pc = "lesson" =>
        \A k \in Slots :
            LET done == TextsInSlot(SubSeq(lessons, 1, li - 1), k) IN
            /\ row[k + 1] = <<45>> <=> done = <<>>
            /\ done # <<>> =>
                  /\ Len(row[k + 1]) >= Len(done[1])
                  /\ SubSeq(row[k + 1], 1, Len(done[1])) = done[1]

\* two lessons have gone into one slot, the first with '-' for subject and
\* location, and the cell still starts with the first one's text
C9_Witness ==
    /\ pc = "lesson"
    /\ li = 3
    /\ DOMAIN lessons[1] = {"lesson", "location", "start_time"}
    /\ lessons[1]["lesson"] = <<45>>
    /\ lessons[1]["location"] = <<45>>
    /\ InRange(StartOf(lessons[1]), 2)
    /\ InRange(StartOf(lessons[2]), 2)
    /\ SubSeq(row[3], 1, 3) = <<45, 10, 45>>
    /\ Len(row[3]) > 3

\* C10: on each page the header is drawn exactly once, and PDF.header is never
\* called without its three arguments (full_name, week_label, week_emoji),
\* given that add_page itself invokes the header hook without arguments.
C10_HeaderOncePerPageWithArguments ==
    add_page_calls_header =>
    /\ \A n \in 1..Len(header_calls) : Len(header_calls[n].args) = 3
    /\ \A m, n \in 1..Len(header_calls) :
          header_calls[m].page = header_calls[n].page => m = n
    /\ pc \in {"day", "lesson", "table"} =>
          \E n \in 1..Len(header_calls) : header_calls[n].page = page

====
